---- MODULE Spec2Model ----
(***************************************************************************)
(* The per-chat game sessions of bot.py: the GAMES registry under           *)
(* GAMES_LOCK, the callback handlers, pick_random_and_mark and the          *)
(* inactivity sweep cleanup_old_games.                                      *)
(*                                                                          *)
(* Scheduling.  The handlers are asyncio coroutines: code between two       *)
(* awaits runs without interruption.  A handler's locked section holds no   *)
(* await on its success path, so it is one atomic step; on a rejection path *)
(* it awaits bot.answer_callback_query INSIDE `async with GAMES_LOCK`, so   *)
(* the lock stays held until that I/O ends.  Python values: None is 0 for   *)
(* ids and content items and "None" for a role; content records are the     *)
(* positive numbers (non-empty JSON objects, hence truthy).                 *)
(***************************************************************************)
EXTENDS Integers, Sequences, FiniteSets, TLC

VARIABLES
    GAMES,        \* bot.py:69  chat_id -> game dict (a function on the chats that have one)
    SITUATIONS,   \* bot.py:46  content list, loaded once
    WITNESSES,    \* bot.py:47  content list, loaded once
    lock,         \* bot.py:70  GAMES_LOCK: 0 when free, else the task holding it
    waiters,      \* GAMES_LOCK's queue of waiters, first come first served (0 is the sweep)
    tasks,        \* one record per handler invocation in flight
    reaper,       \* cleanup_old_games: its position, its current_time, its removed_games
    now,          \* time.time()
    drawn,        \* history: per chat and pool, the indices drawn since the used-set was last emptied
    game_ref,     \* bot.py:327  per task, the `game` dict cb_assign_roles keeps after the lock
    sched         \* bot.py:619-729  main, heartbeat_task, connection_check_task and the loop's ready queue

vars == <<GAMES, SITUATIONS, WITNESSES, lock, waiters, tasks, reaper, now, drawn, game_ref, sched>>

(* ------------------------------ bounds -------------------------------- *)
MainTicks == 1       \* clock advances of Spec, SpecJoin and SpecPool
ReaperTicks == 3     \* clock advances of SpecReaper
TickSeconds == 1800  \* seconds per clock advance
NumRoleUsers == 5    \* users of SpecRoles
MaxPoolItems == 3    \* longest content list of SpecPool

(* ------------------------- program constants -------------------------- *)
GAME_TIMEOUT == 3600
MIN_PLAYERS == 3

NoneId == 0
NoneItem == 0
NoneRole == "None"
FallbackRole == "Witness"
ROLES == <<"Judge", "Prosecutor", "Defense", "Defendant">>

GroupChats == {1, 2}
PrivateChats == {3}
Chats == GroupChats \cup PrivateChats
Users == {1, 2}
JoinUsers == {1, 2, 3}
RoleUsers == 1..NumRoleUsers
PoolUsers == {1, 2}

AllSituations == [i \in 1..(MaxPoolItems + 1) |-> 10 + i]
AllWitnesses == [i \in 1..(MaxPoolItems + 1) |-> 20 + i]
CONCLUSIONS == <<31>>

Prefix(s, n) == [i \in 1..n |-> s[i]]
Range(s) == {s[i] : i \in DOMAIN s}

(* message.chat.type == ChatType.PRIVATE *)
IsPrivate(c) == c \in PrivateChats

(* callback_query.data / the command, per handler *)
CallerOps == {"join", "draw_witness", "judge_verdict", "verdict_acquit", "verdict_convict"}
ChatOps == {"newgame", "stop_join", "assign_roles", "start_round", "start_debate", "end_game"}
AllOps == CallerOps \cup ChatOps

IdleTask == [pc |-> "idle", op |-> "none", chat |-> 0, user |-> NoneId,
             result |-> "none", reset |-> FALSE]

EmptyMap == [u \in {} |-> 0]

(* ------------------------------ helpers ------------------------------- *)

NewGameKeepsPool(tm) ==
    [players |-> EmptyMap, order |-> <<>>, roles_assigned |-> FALSE,
     current_situation |-> NoneItem, used_situations |-> {0}, used_witnesses |-> {},
     stage |-> "joining", judge_id |-> NoneId, defendant_id |-> NoneId,
     witness_map |-> EmptyMap, last_activity |-> tm]

(* The literal of cmd_newgame. *)
NewGame(tm) ==
    [players |-> EmptyMap, order |-> <<>>, roles_assigned |-> FALSE,
     current_situation |-> NoneItem, used_situations |-> {}, used_witnesses |-> {},
     stage |-> "joining", judge_id |-> NoneId, defendant_id |-> NoneId,
     witness_map |-> EmptyMap, last_activity |-> tm]

NoDraws == [sit |-> <<>>, wit |-> <<>>]

(* dict item assignment d[k] = v *)
Put(d, k, v) == [x \in DOMAIN d \cup {k} |-> IF x = k THEN v ELSE d[x]]

(* del d[k] *)
Del(d, k) == [x \in DOMAIN d \ {k} |-> d[x]]

AvailableAll(collection, used) == 0..(Len(collection) - 1)

(* available = [i for i in range(len(collection)) if i not in used] *)
Available(collection, used) == {i \in 0..(Len(collection) - 1) : i \notin used}

PickNoReset(collection, used) ==
    IF collection = <<>> \/ Available(collection, used) = {}
    THEN {[item |-> NoneItem, used |-> used, idx |-> -1, reset |-> FALSE]}
    ELSE {[item |-> collection[i + 1], used |-> used \cup {i}, idx |-> i, reset |-> FALSE] :
             i \in Available(collection, used)}

PickMarkFirst(collection, used) ==
    IF collection = <<>>
    THEN {[item |-> NoneItem, used |-> used \cup {0}, idx |-> -1, reset |-> FALSE]}
    ELSE LET reset == Available(collection, used) = {}
             used1 == IF reset THEN {} ELSE used
             available == IF reset THEN 0..(Len(collection) - 1)
                          ELSE Available(collection, used)
         IN  {[item |-> collection[i + 1], used |-> used1 \cup {i}, idx |-> i, reset |-> reset] :
                 i \in available}

(* pick_random_and_mark: every outcome of random.choice, with the used-set
   as the call leaves it (the set is mutated in place). *)
pick_random_and_mark(collection, used) ==
    IF collection = <<>>
    THEN {[item |-> NoneItem, used |-> used, idx |-> -1, reset |-> FALSE]}
    ELSE LET reset == Available(collection, used) = {}
             used1 == IF reset THEN {} ELSE used
             available == IF reset THEN 0..(Len(collection) - 1)
                          ELSE Available(collection, used)
         IN  {[item |-> collection[i + 1], used |-> used1 \cup {i}, idx |-> i, reset |-> reset] :
                 i \in available}

(* The history of one draw. *)
Logged(log, p) == IF p.idx < 0 THEN log ELSE IF p.reset THEN <<p.idx>> ELSE Append(log, p.idx)

(* random.shuffle(players): every ordering of the roster *)
RECURSIVE Shuffles(_)
Shuffles(S) ==
    IF S = {} THEN {<<>>}
    ELSE UNION {{Append(s, x) : s \in Shuffles(S \ {x})} : x \in S}

RoleAtAllJudge(i, n) == ROLES[1]

RoleAtShort(i, n) == IF i < Len(ROLES) - 1 /\ i < n THEN ROLES[i + 1] ELSE FallbackRole

(* roles = roles[:n] if n < len(roles); role = roles[i] if i < len(roles) else fallback *)
RoleAt(i, n) ==
    LET roles == IF n < Len(ROLES) THEN Prefix(ROLES, n) ELSE ROLES
    IN  IF i < Len(roles) THEN roles[i + 1] ELSE FallbackRole

(* assigned[uid] for the shuffled list `players` *)
Assigned(players) == [uid \in Range(players) |->
    RoleAt((CHOOSE i \in DOMAIN players : players[i] = uid) - 1, Len(players))]

FirstWithStranger(assigned, players, role) == 100

FirstWithLast(assigned, players, role) ==
    IF \E i \in DOMAIN players : assigned[players[i]] = role
    THEN players[Len(players)]
    ELSE NoneId

(* next((uid for uid, r in assigned.items() if r == role), None) *)
FirstWith(assigned, players, role) ==
    IF \E i \in DOMAIN players : assigned[players[i]] = role
    THEN players[CHOOSE i \in DOMAIN players :
                    /\ assigned[players[i]] = role
                    /\ \A j \in DOMAIN players : assigned[players[j]] = role => i <= j]
    ELSE NoneId

ExpiredLate(game, current_time) == current_time - game.last_activity > 2 * GAME_TIMEOUT

ExpiredAtTimeout(game, current_time) == current_time - game.last_activity >= GAME_TIMEOUT

(* current_time - last_activity > GAME_TIMEOUT *)
Expired(game, current_time) == current_time - game.last_activity > GAME_TIMEOUT

BelowMinimumOff(game) == Cardinality(DOMAIN game.players) < MIN_PLAYERS - 1

(* player_count < config.MIN_PLAYERS *)
BelowMinimum(game) == Cardinality(DOMAIN game.players) < MIN_PLAYERS

NotJudgeUnlessUnset(game, caller) == game.judge_id # NoneId /\ caller # game.judge_id

(* caller.id != judge_id *)
NotJudge(game, caller) == caller # game.judge_id

AlreadyJoinedLast(game, uid) == game.order # <<>> /\ uid = game.order[Len(game.order)]

(* user.id in game["players"] *)
AlreadyJoined(game, uid) == uid \in DOMAIN game.players

NeverDrew(game, uid) == FALSE

(* user.id in game["witness_map"] *)
HasDrawn(game, uid) == uid \in DOMAIN game.witness_map

EndNone(c) == GAMES

EndAll(c) == EmptyMap

(* if chat_id in GAMES: del GAMES[chat_id] *)
EndGame(c) == IF c \in DOMAIN GAMES THEN Del(GAMES, c) ELSE GAMES

(* bot.py:678-710: main polls; the three background tasks sleep *)
Polling == [main |-> "polling", heartbeat_task |-> "sleep", connection_check_task |-> "sleep",
            ready |-> <<>>]

(* ------------------------------- tasks -------------------------------- *)

TaskIds == DOMAIN tasks

Task(pc, op, c, u, result, reset) ==
    [pc |-> pc, op |-> op, chat |-> c, user |-> u, result |-> result, reset |-> reset]

(* The local `game` of cb_assign_roles (bot.py:327), read again after the
   lock at lines 358 and 371: a reference to the session's dict, not a copy.
   `assigned` is what the locked section wrote; once GAMES[chat_id] is
   deleted or re-bound the dict lives on, detached, as `players` holds it. *)
NoRef == [held |-> FALSE, assigned |-> EmptyMap, detached |-> FALSE, players |-> EmptyMap]

Kept(game) == [held |-> TRUE, assigned |-> game.players, detached |-> FALSE, players |-> EmptyMap]

(* del GAMES[chat_id] / GAMES[chat_id] = {...} for the chats `removed` *)
Detached(removed) ==
    [t \in DOMAIN game_ref |->
        IF /\ game_ref[t].held
           /\ ~game_ref[t].detached
           /\ tasks[t].chat \in removed \cap DOMAIN GAMES
        THEN [game_ref[t] EXCEPT !.detached = TRUE, !.players = GAMES[tasks[t].chat].players]
        ELSE game_ref[t]]

(* game["players"] as the handler reads it after the lock *)
GamePlayers(t) ==
    IF game_ref[t].detached THEN game_ref[t].players ELSE GAMES[tasks[t].chat].players

(* bot.py:358: `for uid, pdata in game["players"].items()` awaits
   send_message inside the loop; a dict that gained a key while the loop was
   suspended raises RuntimeError at the next step of the iterator.  An empty
   roster gives the loop no await. *)
IterationFails(t) ==
    /\ game_ref[t].assigned # EmptyMap
    /\ DOMAIN GamePlayers(t) # DOMAIN game_ref[t].assigned

(* bot.py:370-374: the roles `lines` is built from, read from
   game["players"] after the deliveries *)
Announced(t) ==
    IF game_ref[t].assigned = EmptyMap THEN game_ref[t].assigned ELSE GamePlayers(t)

(* The dispatcher starts a handler in a free task; which one is immaterial. *)
Free(t) == tasks[t].pc = "idle" /\ \A s \in TaskIds : s < t => tasks[s].pc # "idle"

(* `async with GAMES_LOCK` of a handler just started: asyncio.Lock.acquire
   returns without suspending when the lock is free and nobody waits. *)
Fresh(t) == Free(t) /\ lock = 0 /\ waiters = <<>>

(* ... and of a handler that waited: release() woke the first waiter. *)
Resumed(t, op, c, u) ==
    /\ lock = 0
    /\ waiters # <<>>
    /\ Head(waiters) = t
    /\ tasks[t] = Task("waiting", op, c, u, "none", FALSE)

Enters(t, op, c, u) ==
    /\ Fresh(t) \/ Resumed(t, op, c, u)
    /\ waiters' = IF Fresh(t) THEN waiters ELSE Tail(waiters)

(* The handler returns from inside `async with` after awaiting its answer:
   the lock is held while that I/O runs. *)
Reject(t, op, c, u, result) ==
    /\ tasks' = [tasks EXCEPT ![t] = Task("answer_locked", op, c, u, result, FALSE)]
    /\ lock' = t

(* The handler left `async with`; its messages are sent after the lock. *)
Accept(t, op, c, u, result, reset) ==
    /\ tasks' = [tasks EXCEPT ![t] = Task("notify", op, c, u, result, reset)]
    /\ lock' = 0

(* A handler starts while the lock is held or promised: it joins the queue. *)
Wait(t, op, c, u) ==
    /\ Free(t)
    /\ lock # 0 \/ waiters # <<>>
    /\ ~IsPrivate(c)
    /\ tasks' = [tasks EXCEPT ![t] = Task("waiting", op, c, u, "none", FALSE)]
    /\ waiters' = Append(waiters, t)
    /\ UNCHANGED <<GAMES, SITUATIONS, WITNESSES, lock, reaper, now, drawn, game_ref, sched>>

(* bot.py:236-238 *)
cmd_newgame_private(t, c) ==
    /\ Free(t)
    /\ IsPrivate(c)
    /\ tasks' = [tasks EXCEPT ![t] = Task("notify", "newgame", c, NoneId, "PrivateChat", FALSE)]
    /\ UNCHANGED <<GAMES, SITUATIONS, WITNESSES, lock, waiters, reaper, now, drawn, game_ref, sched>>

(* bot.py:240-260 *)
cmd_newgame(t, c) ==
    /\ ~IsPrivate(c)
    /\ Enters(t, "newgame", c, NoneId)
    /\ GAMES' = Put(GAMES, c, NewGame(now))
    /\ drawn' = [drawn EXCEPT ![c] = NoDraws]
    /\ game_ref' = Detached({c})
    /\ Accept(t, "newgame", c, NoneId, "Created", FALSE)
    /\ UNCHANGED <<SITUATIONS, WITNESSES, reaper, now, sched>>

cb_join_creating(t, c, u) ==
    /\ Enters(t, "join", c, u)
    /\ GAMES' = Put(GAMES, c, NewGame(now))
    /\ Accept(t, "join", c, u, "Joined", FALSE)
    /\ UNCHANGED <<SITUATIONS, WITNESSES, reaper, now, drawn, game_ref, sched>>

(* bot.py:263-290 *)
cb_join(t, c, u) ==
    /\ Enters(t, "join", c, u)
    /\ IF c \notin DOMAIN GAMES
       THEN Reject(t, "join", c, u, "NotFound") /\ UNCHANGED GAMES
       ELSE IF AlreadyJoined(GAMES[c], u)
       THEN Reject(t, "join", c, u, "AlreadyJoined") /\ UNCHANGED GAMES
       ELSE /\ GAMES' = [GAMES EXCEPT
                   ![c].players = Put(@, u, [name |-> u, role |-> NoneRole]),
                   ![c].order = Append(@, u),
                   ![c].last_activity = now]
            /\ Accept(t, "join", c, u, "Joined", FALSE)
    /\ UNCHANGED <<SITUATIONS, WITNESSES, reaper, now, drawn, game_ref, sched>>

(* bot.py:292-320 *)
cb_stop_join(t, c) ==
    /\ Enters(t, "stop_join", c, NoneId)
    /\ IF c \notin DOMAIN GAMES
       THEN Reject(t, "stop_join", c, NoneId, "NotFound") /\ UNCHANGED GAMES
       ELSE IF BelowMinimum(GAMES[c])
       THEN Reject(t, "stop_join", c, NoneId, "TooFewPlayers") /\ UNCHANGED GAMES
       ELSE /\ GAMES' = [GAMES EXCEPT ![c].last_activity = now]
            /\ Accept(t, "stop_join", c, NoneId, "JoinClosed", FALSE)
    /\ UNCHANGED <<SITUATIONS, WITNESSES, reaper, now, drawn, game_ref, sched>>

(* bot.py:322-354, the locked section *)
cb_assign_roles(t, c) ==
    /\ Enters(t, "assign_roles", c, NoneId)
    /\ IF c \notin DOMAIN GAMES
       THEN Reject(t, "assign_roles", c, NoneId, "NotFound") /\ UNCHANGED <<GAMES, game_ref>>
       ELSE \E players \in Shuffles(DOMAIN GAMES[c].players) :
              LET assigned == Assigned(players)
              IN  /\ GAMES' = [GAMES EXCEPT
                         ![c].players = [uid \in DOMAIN @ |->
                                            [@[uid] EXCEPT !.role = assigned[uid]]],
                         ![c].judge_id = FirstWith(assigned, players, "Judge"),
                         ![c].defendant_id = FirstWith(assigned, players, "Defendant"),
                         ![c].roles_assigned = TRUE,
                         ![c].last_activity = now]
                  /\ game_ref' = [game_ref EXCEPT ![t] = Kept(GAMES'[c])]
                  /\ Accept(t, "assign_roles", c, NoneId, "RolesAssigned", FALSE)
    /\ UNCHANGED <<SITUATIONS, WITNESSES, reaper, now, drawn, sched>>

(* bot.py:379-405 *)
cb_start_round(t, c) ==
    /\ Enters(t, "start_round", c, NoneId)
    /\ IF c \notin DOMAIN GAMES \/ ~GAMES[c].roles_assigned
       THEN Reject(t, "start_round", c, NoneId, "NoRoles") /\ UNCHANGED <<GAMES, drawn>>
       ELSE \E p \in pick_random_and_mark(SITUATIONS, GAMES[c].used_situations) :
              /\ drawn' = [drawn EXCEPT ![c].sit = Logged(@, p)]
              /\ IF p.item = NoneItem
                 THEN /\ GAMES' = [GAMES EXCEPT ![c].used_situations = p.used]
                      /\ Reject(t, "start_round", c, NoneId, "Unavailable")
                 ELSE /\ GAMES' = [GAMES EXCEPT
                            ![c].used_situations = p.used,
                            ![c].current_situation = p.item,
                            ![c].stage = "situation",
                            ![c].last_activity = now,
                            ![c].witness_map = EmptyMap]
                      /\ Accept(t, "start_round", c, NoneId, "RoundStarted", p.reset)
    /\ UNCHANGED <<SITUATIONS, WITNESSES, reaper, now, game_ref, sched>>

(* bot.py:428-462 *)
cb_draw_witness(t, c, u) ==
    /\ Enters(t, "draw_witness", c, u)
    /\ IF c \notin DOMAIN GAMES \/ GAMES[c].current_situation = NoneItem
       THEN Reject(t, "draw_witness", c, u, "NoSituation") /\ UNCHANGED <<GAMES, drawn>>
       ELSE IF HasDrawn(GAMES[c], u)
       THEN Reject(t, "draw_witness", c, u, "AlreadyDrawn") /\ UNCHANGED <<GAMES, drawn>>
       ELSE \E p \in pick_random_and_mark(WITNESSES, GAMES[c].used_witnesses) :
              /\ drawn' = [drawn EXCEPT ![c].wit = Logged(@, p)]
              /\ IF p.item = NoneItem
                 THEN /\ GAMES' = [GAMES EXCEPT ![c].used_witnesses = p.used]
                      /\ Reject(t, "draw_witness", c, u, "Unavailable")
                 ELSE /\ GAMES' = [GAMES EXCEPT
                            ![c].used_witnesses = p.used,
                            ![c].witness_map = Put(@, u, p.item),
                            ![c].last_activity = now]
                      /\ Accept(t, "draw_witness", c, u, "WitnessDrawn", p.reset)
    /\ UNCHANGED <<SITUATIONS, WITNESSES, reaper, now, game_ref, sched>>

(* bot.py:464-475 *)
cb_start_debate(t, c) ==
    /\ Enters(t, "start_debate", c, NoneId)
    /\ IF c \notin DOMAIN GAMES \/ GAMES[c].current_situation = NoneItem
       THEN Reject(t, "start_debate", c, NoneId, "NoSituation") /\ UNCHANGED GAMES
       ELSE /\ GAMES' = [GAMES EXCEPT ![c].stage = "debate", ![c].last_activity = now]
            /\ Accept(t, "start_debate", c, NoneId, "DebateStarted", FALSE)
    /\ UNCHANGED <<SITUATIONS, WITNESSES, reaper, now, drawn, game_ref, sched>>

(* bot.py:477-506; the conclusion drawn at line 498 marks a fresh set() and
   is never read: it changes nothing *)
cb_judge_verdict(t, c, u) ==
    /\ Enters(t, "judge_verdict", c, u)
    /\ IF c \notin DOMAIN GAMES
       THEN Reject(t, "judge_verdict", c, u, "NotFound") /\ UNCHANGED GAMES
       ELSE IF GAMES[c].judge_id = NoneId
       THEN Reject(t, "judge_verdict", c, u, "NoJudge") /\ UNCHANGED GAMES
       ELSE IF NotJudge(GAMES[c], u)
       THEN Reject(t, "judge_verdict", c, u, "PermissionDenied") /\ UNCHANGED GAMES
       ELSE \E conclusion \in pick_random_and_mark(CONCLUSIONS, {}) :
              /\ GAMES' = [GAMES EXCEPT ![c].stage = "verdict", ![c].last_activity = now]
              /\ Accept(t, "judge_verdict", c, u, "VerdictCalled", FALSE)
    /\ UNCHANGED <<SITUATIONS, WITNESSES, reaper, now, drawn, game_ref, sched>>

(* bot.py:508-539; verdict_choice is the callback data after "verdict_" *)
cb_verdict(t, c, u, verdict_choice) ==
    /\ Enters(t, verdict_choice, c, u)
    /\ IF c \notin DOMAIN GAMES
       THEN Reject(t, verdict_choice, c, u, "NotFound") /\ UNCHANGED GAMES
       ELSE IF NotJudge(GAMES[c], u)
       THEN Reject(t, verdict_choice, c, u, "PermissionDenied") /\ UNCHANGED GAMES
       ELSE /\ GAMES' = [GAMES EXCEPT ![c].stage = "finished"]
            /\ Accept(t, verdict_choice, c, u,
                      IF verdict_choice = "verdict_acquit" THEN "Acquitted" ELSE "Convicted",
                      FALSE)
    /\ UNCHANGED <<SITUATIONS, WITNESSES, reaper, now, drawn, game_ref, sched>>

(* bot.py:541-548 *)
cb_end_game(t, c) ==
    /\ Enters(t, "end_game", c, NoneId)
    /\ GAMES' = EndGame(c)
    /\ drawn' = [x \in Chats |-> IF x \in DOMAIN GAMES' THEN drawn[x] ELSE NoDraws]
    /\ game_ref' = Detached({c})
    /\ Accept(t, "end_game", c, NoneId, "Ended", FALSE)
    /\ UNCHANGED <<SITUATIONS, WITNESSES, reaper, now, sched>>

(* bot.py:551-561: both replies are awaited inside `async with` *)
cmd_status(t, c) ==
    /\ Enters(t, "status", c, NoneId)
    /\ Reject(t, "status", c, NoneId, IF c \in DOMAIN GAMES THEN "Status" ELSE "NotFound")
    /\ UNCHANGED <<GAMES, SITUATIONS, WITNESSES, reaper, now, drawn, game_ref, sched>>

AnswerKeepsLock(t) ==
    /\ tasks[t].pc = "answer_locked"
    /\ lock = t
    /\ tasks' = [tasks EXCEPT ![t] = IdleTask]
    /\ UNCHANGED <<GAMES, SITUATIONS, WITNESSES, lock, waiters, reaper, now, drawn, game_ref, sched>>

(* The answer awaited inside the lock ends (sent, or raised): the handler
   returns and `async with` releases the lock. *)
AnswerLocked(t) ==
    /\ tasks[t].pc = "answer_locked"
    /\ lock = t
    /\ lock' = 0
    /\ tasks' = [tasks EXCEPT ![t] = IdleTask]
    /\ UNCHANGED <<GAMES, SITUATIONS, WITNESSES, waiters, reaper, now, drawn, game_ref, sched>>

(* The messages sent after the lock end (sent, or one of them raised): the
   handler returns. *)
Notify(t) ==
    /\ tasks[t].pc = "notify"
    /\ tasks' = [tasks EXCEPT ![t] = IdleTask]
    /\ game_ref' = [game_ref EXCEPT ![t] = NoRef]
    /\ UNCHANGED <<GAMES, SITUATIONS, WITNESSES, lock, waiters, reaper, now, drawn, sched>>

(* ------------------------------ reaper -------------------------------- *)

(* bot.py:92-95: current_time = time.time() is read BEFORE the lock is
   asked for; the sweep waits its turn when the lock is held. *)
ReaperWait ==
    /\ sched.main = "polling"
    /\ reaper.pc = "sleep"
    /\ lock # 0 \/ waiters # <<>>
    /\ reaper' = [pc |-> "waiting", current_time |-> now, removed |-> {}]
    /\ waiters' = Append(waiters, 0)
    /\ UNCHANGED <<GAMES, SITUATIONS, WITNESSES, lock, tasks, now, drawn, game_ref, sched>>

(* bot.py:90-109 *)
cleanup_old_games ==
    /\ sched.main = "polling"
    /\ lock = 0
    /\ \/ reaper.pc = "sleep" /\ waiters = <<>>
       \/ reaper.pc = "waiting" /\ waiters # <<>> /\ Head(waiters) = 0
    /\ LET current_time == IF reaper.pc = "sleep" THEN now ELSE reaper.current_time
           games_to_remove == {c \in DOMAIN GAMES : Expired(GAMES[c], current_time)}
       IN  /\ GAMES' = [c \in DOMAIN GAMES \ games_to_remove |-> GAMES[c]]
           /\ drawn' = [x \in Chats |-> IF x \in DOMAIN GAMES' THEN drawn[x] ELSE NoDraws]
           /\ reaper' = [pc |-> "sleep", current_time |-> 0, removed |-> games_to_remove]
           /\ game_ref' = Detached(games_to_remove)
    /\ waiters' = IF reaper.pc = "sleep" THEN waiters ELSE Tail(waiters)
    /\ UNCHANGED <<SITUATIONS, WITNESSES, lock, tasks, now, sched>>

(* ------------------------ background tasks, main ---------------------- *)

(* bot.py:131-151.  get_me failing is re-raised at line 146 into the outer
   `except Exception`, which sleeps 60 s inside the handler (line 151). *)
HeartbeatWakes ==
    /\ sched.main = "polling"
    /\ sched.heartbeat_task = "sleep"
    /\ sched' = [sched EXCEPT !.heartbeat_task = "get_me"]

HeartbeatAnswered ==
    /\ sched.main = "polling"
    /\ sched.heartbeat_task = "get_me"
    /\ \E next \in {"sleep", "backoff"} : sched' = [sched EXCEPT !.heartbeat_task = next]

HeartbeatRetries ==
    /\ sched.main = "polling"
    /\ sched.heartbeat_task = "backoff"
    /\ sched' = [sched EXCEPT !.heartbeat_task = "sleep"]

heartbeat_task ==
    /\ HeartbeatWakes \/ HeartbeatAnswered \/ HeartbeatRetries
    /\ UNCHANGED <<GAMES, SITUATIONS, WITNESSES, lock, waiters, tasks, reaper, now, drawn, game_ref>>

(* bot.py:153-169.  get_me failing is swallowed at line 163, so the sleep of
   line 169 is never entered from it. *)
connection_check_task ==
    /\ sched.main = "polling"
    /\ \/ sched.connection_check_task = "sleep"
          /\ sched' = [sched EXCEPT !.connection_check_task = "get_me"]
       \/ sched.connection_check_task = "get_me"
          /\ sched' = [sched EXCEPT !.connection_check_task = "sleep"]
    /\ UNCHANGED <<GAMES, SITUATIONS, WITNESSES, lock, waiters, tasks, reaper, now, drawn, game_ref>>

Terminated == {"done", "cancelled"}

(* loop.call_soon: callbacks run in the order they were scheduled *)
WokenFirst(ready, who) == <<who>> \o ready

Woken(ready, who) == Append(ready, who)

(* CancelledError thrown at the await a task is suspended at.  It is not an
   Exception, so from the sleep of the `try` and from get_me it reaches
   `except asyncio.CancelledError: break` and the task returns; thrown at the
   sleep inside `except Exception` it leaves the loop and the task ends
   cancelled. *)
Cancelled(pc) == IF pc = "backoff" THEN "cancelled" ELSE "done"

(* bot.py:711-717: the `finally` of main cancels the three tasks, which
   schedules one step for each, and awaits the first. *)
StopTasks ==
    /\ sched.main = "polling"
    /\ sched' = [sched EXCEPT
            !.main = "await_cleanup",
            !.ready = <<"cleanup_task", "heartbeat_task", "connection_check_task">>]
    /\ UNCHANGED <<GAMES, SITUATIONS, WITNESSES, lock, waiters, tasks, reaper, now, drawn, game_ref>>

(* A task that ended wakes main if main awaits it. *)
Ended(who, ready) ==
    IF sched.main = "await_" \o who THEN Woken(ready, "main") ELSE ready

(* bot.py:716-721: main goes on from the await that returned.  Awaiting a
   task that already ended does not suspend; one that ended cancelled raises
   CancelledError into `except asyncio.CancelledError: pass`, past the awaits
   that follow. *)
MainAfter(heartbeat, connection) ==
    IF heartbeat \notin Terminated THEN "await_heartbeat"
    ELSE IF heartbeat = "cancelled" THEN "closing"
    ELSE IF connection \notin Terminated THEN "await_connection"
    ELSE "closing"

(* The event loop runs the callback at the head of its ready queue. *)
RunsCleanup ==
    /\ Head(sched.ready) = "cleanup_task"
    /\ reaper' = [reaper EXCEPT !.pc = Cancelled(reaper.pc)]
    /\ waiters' = SelectSeq(waiters, LAMBDA w : w # 0)
    /\ sched' = [sched EXCEPT !.ready = Ended("cleanup", Tail(sched.ready))]

RunsHeartbeat ==
    /\ Head(sched.ready) = "heartbeat_task"
    /\ sched' = [sched EXCEPT
            !.heartbeat_task = Cancelled(sched.heartbeat_task),
            !.ready = Ended("heartbeat", Tail(sched.ready))]
    /\ UNCHANGED <<reaper, waiters>>

RunsConnection ==
    /\ Head(sched.ready) = "connection_check_task"
    /\ sched' = [sched EXCEPT
            !.connection_check_task = Cancelled(sched.connection_check_task),
            !.ready = Ended("connection", Tail(sched.ready))]
    /\ UNCHANGED <<reaper, waiters>>

RunsMain ==
    /\ Head(sched.ready) = "main"
    /\ sched' = [sched EXCEPT
            !.main = IF sched.main \in {"await_cleanup", "await_heartbeat"}
                     THEN MainAfter(sched.heartbeat_task, sched.connection_check_task)
                     ELSE "closing",
            !.ready = Tail(sched.ready)]
    /\ UNCHANGED <<reaper, waiters>>

Runs ==
    /\ sched.ready # <<>>
    /\ RunsCleanup \/ RunsHeartbeat \/ RunsConnection \/ RunsMain
    /\ UNCHANGED <<GAMES, SITUATIONS, WITNESSES, lock, tasks, now, drawn, game_ref>>

(* bot.py:723-729: the session is closed and main returns *)
CloseSession ==
    /\ sched.main = "closing"
    /\ sched' = [sched EXCEPT !.main = "exited"]
    /\ UNCHANGED <<GAMES, SITUATIONS, WITNESSES, lock, waiters, tasks, reaper, now, drawn, game_ref>>

(* time passes *)
Tick(ticks) ==
    /\ now < ticks * TickSeconds
    /\ now' = now + TickSeconds
    /\ UNCHANGED <<GAMES, SITUATIONS, WITNESSES, lock, waiters, tasks, reaper, drawn, game_ref, sched>>

(* --------------------------- specifications --------------------------- *)

(* The updates a specification's environment delivers: <<data, chat, user>>,
   the user being recorded only for the handlers that read from_user. *)
Inputs(ops, chats, users) ==
    {<<op, c, IF op \in CallerOps THEN u ELSE NoneId>> : op \in ops, c \in chats, u \in users}

Arrive(env) == \E t \in TaskIds, i \in env : Wait(t, i[1], i[2], i[3])
NewGamePrivate(env) == \E t \in TaskIds, i \in env : i[1] = "newgame" /\ cmd_newgame_private(t, i[2])
NewGameOp(env) == \E t \in TaskIds, i \in env : i[1] = "newgame" /\ cmd_newgame(t, i[2])
JoinOp(env) == \E t \in TaskIds, i \in env : i[1] = "join" /\ cb_join(t, i[2], i[3])
StopJoinOp(env) == \E t \in TaskIds, i \in env : i[1] = "stop_join" /\ cb_stop_join(t, i[2])
AssignRolesOp(env) == \E t \in TaskIds, i \in env : i[1] = "assign_roles" /\ cb_assign_roles(t, i[2])
StartRoundOp(env) == \E t \in TaskIds, i \in env : i[1] = "start_round" /\ cb_start_round(t, i[2])
DrawWitnessOp(env) == \E t \in TaskIds, i \in env : i[1] = "draw_witness" /\ cb_draw_witness(t, i[2], i[3])
StartDebateOp(env) == \E t \in TaskIds, i \in env : i[1] = "start_debate" /\ cb_start_debate(t, i[2])
JudgeVerdictOp(env) == \E t \in TaskIds, i \in env : i[1] = "judge_verdict" /\ cb_judge_verdict(t, i[2], i[3])
VerdictOp(env) ==
    \E t \in TaskIds, i \in env :
        i[1] \in {"verdict_acquit", "verdict_convict"} /\ cb_verdict(t, i[2], i[3], i[1])
EndGameOp(env) == \E t \in TaskIds, i \in env : i[1] = "end_game" /\ cb_end_game(t, i[2])
Answered == \E t \in TaskIds : AnswerLocked(t)
Notified == \E t \in TaskIds : Notify(t)

(* cb_join for users who arrive in the order of their ids: the ids are
   interchangeable, so nothing is lost by naming the k-th to join k. *)
JoinInTurn(env) ==
    \E t \in TaskIds, i \in env :
        /\ i[1] = "join"
        /\ i[2] \in DOMAIN GAMES => i[3] <= Len(GAMES[i[2]].order) + 1
        /\ cb_join(t, i[2], i[3])

InitWith(ntasks, lens) ==
    /\ GAMES = EmptyMap
    /\ \E n \in lens : SITUATIONS = Prefix(AllSituations, n)
    /\ \E n \in lens : WITNESSES = Prefix(AllWitnesses, n)
    /\ lock = 0
    /\ waiters = <<>>
    /\ tasks = [t \in 1..ntasks |-> IdleTask]
    /\ reaper = [pc |-> "sleep", current_time |-> 0, removed |-> {}]
    /\ now = 0
    /\ drawn = [c \in Chats |-> NoDraws]
    /\ game_ref = [t \in 1..ntasks |-> NoRef]
    /\ sched = Polling

(* Spec: every handler and the sweep.  Chat 1 plays whole games; chat 2 is
   a second group chat where user 1 creates, joins and ends games; chat 3
   is a private chat. *)
SideOps == {"newgame", "join", "end_game"}
EnvMain ==
    Inputs(AllOps, {1}, Users) \cup Inputs(SideOps, {2}, {1}) \cup Inputs({"newgame"}, PrivateChats, {1})

(* one handler in flight, one-item content lists *)
Init == InitWith(1, {1})

Next ==
    \/ Arrive(EnvMain)
    \/ NewGamePrivate(EnvMain)
    \/ NewGameOp(EnvMain)
    \/ JoinOp(EnvMain)
    \/ StopJoinOp(EnvMain)
    \/ AssignRolesOp(EnvMain)
    \/ StartRoundOp(EnvMain)
    \/ DrawWitnessOp(EnvMain)
    \/ StartDebateOp(EnvMain)
    \/ JudgeVerdictOp(EnvMain)
    \/ VerdictOp(EnvMain)
    \/ EndGameOp(EnvMain)
    \/ Answered
    \/ Notified
    \/ ReaperWait
    \/ cleanup_old_games
    \/ Tick(MainTicks)

Spec == Init /\ [][Next]_vars

(* SpecJoin: the joining phase of one chat, two handlers in flight. *)
EnvJoin == Inputs({"newgame", "join", "stop_join", "end_game"}, {1}, JoinUsers)

InitJoin == InitWith(2, {1})

NextJoin ==
    \/ Arrive(EnvJoin)
    \/ NewGameOp(EnvJoin)
    \/ JoinOp(EnvJoin)
    \/ StopJoinOp(EnvJoin)
    \/ EndGameOp(EnvJoin)
    \/ Answered
    \/ Notified
    \/ Tick(MainTicks)

SpecJoin == InitJoin /\ [][NextJoin]_vars

(* SpecReaper: the sweep against the handlers that create, refresh and
   delete sessions, two handlers in flight, two chats. *)
EnvReaper == Inputs({"newgame", "join", "end_game"}, GroupChats, {1})

InitReaper == InitWith(2, {1})

NextReaper ==
    \/ Arrive(EnvReaper)
    \/ NewGameOp(EnvReaper)
    \/ JoinOp(EnvReaper)
    \/ EndGameOp(EnvReaper)
    \/ Answered
    \/ Notified
    \/ ReaperWait
    \/ cleanup_old_games
    \/ Tick(ReaperTicks)

SpecReaper == InitReaper /\ [][NextReaper]_vars

(* SpecSweep: the sweep against the handlers of one chat, two handlers in
   flight, with the scheduling the event loop gives.  cleanup_task
   (bot.py:111-129) loops for ever, so the reaper's next sweep always comes;
   an awaited answer returns, releasing the lock; a handler woken at the
   head of the lock's queue runs. *)
EnvSweep == Inputs({"newgame", "join", "end_game"}, {1}, {1})

InitSweep == InitWith(2, {1})

cleanup_task == ReaperWait \/ cleanup_old_games

NextSweep ==
    \/ Arrive(EnvSweep)
    \/ NewGameOp(EnvSweep)
    \/ JoinOp(EnvSweep)
    \/ EndGameOp(EnvSweep)
    \/ Answered
    \/ Notified
    \/ cleanup_task
    \/ Tick(ReaperTicks)

Resumes == NextSweep /\ \E t \in TaskIds : tasks[t].pc = "waiting" /\ tasks'[t].pc # "waiting"

SpecSweep ==
    /\ InitSweep
    /\ [][NextSweep]_vars
    /\ WF_vars(cleanup_task)
    /\ WF_vars(Answered)
    /\ WF_vars(Notified)
    /\ WF_vars(Resumes)

(* SpecLock: who holds GAMES_LOCK while a reply is awaited; the handlers of
   one chat with /status, two in flight, and the sweep. *)
StatusOp(env) == \E t \in TaskIds, i \in env : i[1] = "status" /\ cmd_status(t, i[2])

EnvLock == Inputs({"newgame", "join", "status"}, {1}, Users)

InitLock == InitWith(2, {1})

NextLock ==
    \/ Arrive(EnvLock)
    \/ NewGameOp(EnvLock)
    \/ JoinOp(EnvLock)
    \/ StatusOp(EnvLock)
    \/ Answered
    \/ Notified
    \/ cleanup_task
    \/ Tick(MainTicks)

SpecLock == InitLock /\ [][NextLock]_vars

(* SpecAnnounce: two handlers in flight in one chat, so that a join, a
   second assign_roles, an end_game or a newgame lands between the locked
   section of cb_assign_roles and the end of its deliveries. *)
EnvAnnounce == Inputs({"newgame", "join", "assign_roles", "end_game"}, {1}, Users)

InitAnnounce == InitWith(2, {1})

NextAnnounce ==
    \/ Arrive(EnvAnnounce)
    \/ NewGameOp(EnvAnnounce)
    \/ JoinOp(EnvAnnounce)
    \/ AssignRolesOp(EnvAnnounce)
    \/ EndGameOp(EnvAnnounce)
    \/ Answered
    \/ Notified

SpecAnnounce == InitAnnounce /\ [][NextAnnounce]_vars

(* SpecShutdown: main stops the bot at any moment of the three background
   tasks, with handlers of one chat contending with the sweep for the lock. *)
EnvShutdown == Inputs({"newgame", "join"}, {1}, {1})

InitShutdown == InitWith(2, {1})

NextShutdown ==
    /\ sched.main # "exited"
    /\ \/ Arrive(EnvShutdown)
       \/ NewGameOp(EnvShutdown)
       \/ JoinOp(EnvShutdown)
       \/ Answered
       \/ Notified
       \/ cleanup_task
       \/ heartbeat_task
       \/ connection_check_task
       \/ StopTasks
       \/ Runs
       \/ CloseSession

SpecShutdown == InitShutdown /\ [][NextShutdown]_vars

(* SpecRoles: role assignment over rosters of up to NumRoleUsers players,
   one handler in flight. *)
EnvRoles == Inputs({"newgame", "join", "assign_roles"}, {1}, RoleUsers)

InitRoles == InitWith(1, {1})

NextRoles ==
    \/ NewGameOp(EnvRoles)
    \/ JoinInTurn(EnvRoles)
    \/ AssignRolesOp(EnvRoles)
    \/ Answered
    \/ Notified

SpecRoles == InitRoles /\ [][NextRoles]_vars

(* SpecPool: the two draw pools of one chat over content lists of every
   length up to MaxPoolItems, one handler in flight. *)
EnvPool == Inputs({"newgame", "assign_roles", "start_round", "draw_witness"}, {1}, PoolUsers)

InitPool == InitWith(1, 0..MaxPoolItems)

NextPool ==
    \/ NewGameOp(EnvPool)
    \/ AssignRolesOp(EnvPool)
    \/ StartRoundOp(EnvPool)
    \/ DrawWitnessOp(EnvPool)
    \/ Answered
    \/ Notified
    \/ Tick(MainTicks)

SpecPool == InitPool /\ [][NextPool]_vars

(* ------------------------------- claims ------------------------------- *)

(* The step in which task t ran the locked section of a handler. *)
Ran(t) ==
    /\ tasks[t].pc \in {"idle", "waiting"}
    /\ tasks'[t].pc \in {"answer_locked", "notify"}

RanOp(t, op) == Ran(t) /\ tasks'[t].op = op

Distinct(log) == \A i, j \in DOMAIN log : i # j => log[i] # log[j]

Holders(game, role) == {u \in DOMAIN game.players : game.players[u].role = role}

Roster(game) == Cardinality(DOMAIN game.players)

(* C1: between two resets of a pool's used-set no index, and so no item, is
   drawn twice: the indices drawn since the last reset are pairwise
   distinct, they are exactly the used-set, and a full round of N draws
   hands out N different items. *)
C1_NoRepeatBetweenResets ==
    \A c \in DOMAIN GAMES :
        /\ Distinct(drawn[c].sit)
        /\ Distinct(drawn[c].wit)
        /\ Range(drawn[c].sit) = GAMES[c].used_situations
        /\ Range(drawn[c].wit) = GAMES[c].used_witnesses
        /\ Cardinality({SITUATIONS[i + 1] : i \in Range(drawn[c].sit)}) = Len(drawn[c].sit)
        /\ Cardinality({WITNESSES[i + 1] : i \in Range(drawn[c].wit)}) = Len(drawn[c].wit)

C1_Witness ==
    \E c \in DOMAIN GAMES :
        /\ Len(SITUATIONS) = MaxPoolItems
        /\ Len(drawn[c].sit) = MaxPoolItems
        /\ \E t \in TaskIds : tasks[t].op = "start_round" /\ tasks[t].result = "RoundStarted"

(* C2: a draw from a non-empty list is never Unavailable: start_round and
   draw_witness report Unavailable only when their list is empty, and a draw
   that found every index used has reset the used-set and returned an item
   of the list. *)
C2_NonEmptyPoolNeverUnavailable ==
    \A t \in TaskIds :
        /\ tasks[t].result = "Unavailable" /\ tasks[t].op = "start_round" => SITUATIONS = <<>>
        /\ tasks[t].result = "Unavailable" /\ tasks[t].op = "draw_witness" => WITNESSES = <<>>
        /\ tasks[t].reset /\ tasks[t].chat \in DOMAIN GAMES =>
              /\ tasks[t].op = "start_round" =>
                    /\ tasks[t].result = "RoundStarted"
                    /\ Cardinality(GAMES[tasks[t].chat].used_situations) = 1
                    /\ GAMES[tasks[t].chat].current_situation \in Range(SITUATIONS)
              /\ tasks[t].op = "draw_witness" =>
                    /\ tasks[t].result = "WitnessDrawn"
                    /\ Cardinality(GAMES[tasks[t].chat].used_witnesses) = 1
                    /\ GAMES[tasks[t].chat].witness_map[tasks[t].user] \in Range(WITNESSES)

C2_Witness ==
    \E t \in TaskIds :
        /\ tasks[t].op = "start_round"
        /\ tasks[t].result = "RoundStarted"
        /\ tasks[t].reset
        /\ Len(SITUATIONS) >= 2

(* C3: start_round with roles assigned and an empty scenario list, and
   draw_witness against an empty witness list, are answered Unavailable and
   leave the whole registry as it was (stage, current_situation,
   witness_map, both used-sets, last_activity). *)
C3_EmptyPoolRejected ==
    [][\A t \in TaskIds :
          /\ ( /\ RanOp(t, "start_round")
               /\ tasks'[t].chat \in DOMAIN GAMES
               /\ GAMES[tasks'[t].chat].roles_assigned
               /\ SITUATIONS = <<>> )
             => tasks'[t].result = "Unavailable" /\ tasks'[t].pc = "answer_locked" /\ GAMES' = GAMES
          /\ ( /\ RanOp(t, "draw_witness")
               /\ tasks'[t].chat \in DOMAIN GAMES
               /\ GAMES[tasks'[t].chat].current_situation # NoneItem
               /\ tasks'[t].user \notin DOMAIN GAMES[tasks'[t].chat].witness_map
               /\ WITNESSES = <<>> )
             => tasks'[t].result = "Unavailable" /\ tasks'[t].pc = "answer_locked" /\ GAMES' = GAMES
    ]_vars

C3_Witness ==
    \E t \in TaskIds :
        /\ tasks[t].op = "start_round"
        /\ tasks[t].result = "Unavailable"
        /\ tasks[t].chat \in DOMAIN GAMES
        /\ GAMES[tasks[t].chat].roles_assigned
        /\ now > GAMES[tasks[t].chat].last_activity

(* C4: assign_roles over a roster of n players leaves, for n >= 4, each of
   Judge, Prosecutor, Defense, Defendant with exactly one holder and every
   other player with the fallback role; for n < 4 exactly the first n
   distinguished roles have one holder each, the others none, and nobody
   holds the fallback role. *)
C4_RoleCardinality ==
    [][\A t \in TaskIds :
          RanOp(t, "assign_roles") /\ tasks'[t].chat \in DOMAIN GAMES =>
            LET game == GAMES'[tasks'[t].chat]
                n == Roster(game)
            IN  /\ n = Roster(GAMES[tasks'[t].chat])
                /\ \A k \in DOMAIN ROLES :
                      Cardinality(Holders(game, ROLES[k])) = IF k <= n THEN 1 ELSE 0
                /\ Cardinality(Holders(game, FallbackRole)) = IF n >= 4 THEN n - 4 ELSE 0
                /\ \A u \in DOMAIN game.players :
                      game.players[u].role \in Range(ROLES) \cup {FallbackRole}
    ]_vars

C4_Witness ==
    \E t \in TaskIds :
        /\ tasks[t].op = "assign_roles"
        /\ tasks[t].result = "RolesAssigned"
        /\ Roster(GAMES[tasks[t].chat]) >= 5
        /\ Holders(GAMES[tasks[t].chat], FallbackRole) # {}
        /\ Holders(GAMES[tasks[t].chat], NoneRole) = {}

(* C5: after assign_roles over n players judge_id is the player holding
   Judge when n >= 1 and unset when n = 0, defendant_id is the player
   holding Defendant when n >= 4 and unset when n < 4, and the two differ
   when both are set. *)
C5_JudgeAndDefendantIds ==
    [][\A t \in TaskIds :
          RanOp(t, "assign_roles") /\ tasks'[t].chat \in DOMAIN GAMES =>
            LET game == GAMES'[tasks'[t].chat]
                n == Roster(game)
            IN  /\ n = 0 => game.judge_id = NoneId
                /\ n >= 1 => Holders(game, "Judge") = {game.judge_id}
                /\ n < 4 => game.defendant_id = NoneId
                /\ n >= 4 => Holders(game, "Defendant") = {game.defendant_id}
                /\ game.judge_id # NoneId /\ game.defendant_id # NoneId
                      => game.judge_id # game.defendant_id
                /\ game.roles_assigned
    ]_vars

C5_Witness ==
    \E t \in TaskIds :
        /\ tasks[t].op = "assign_roles"
        /\ tasks[t].result = "RolesAssigned"
        /\ Roster(GAMES[tasks[t].chat]) >= 4
        /\ GAMES[tasks[t].chat].judge_id # NoneId
        /\ GAMES[tasks[t].chat].defendant_id # NoneId

(* C6: a join by a user already in players is answered AlreadyJoined and
   changes nothing in the registry; a join by a user not in players is
   accepted and appends the user.  So of two joins by one user in flight
   together on one session, the one that runs first is accepted and the one
   that runs second, finding the user in players, is the rejected one. *)
C6_JoinIdempotent ==
    [][\A t \in TaskIds :
          RanOp(t, "join") /\ tasks'[t].chat \in DOMAIN GAMES =>
            LET c == tasks'[t].chat
                u == tasks'[t].user
            IN  IF u \in DOMAIN GAMES[c].players
                THEN /\ tasks'[t].result = "AlreadyJoined"
                     /\ tasks'[t].pc = "answer_locked"
                     /\ GAMES' = GAMES
                ELSE /\ tasks'[t].result = "Joined"
                     /\ DOMAIN GAMES'[c].players = DOMAIN GAMES[c].players \cup {u}
                     /\ GAMES'[c].order = Append(GAMES[c].order, u)
    ]_vars

C6_Witness ==
    \E t1, t2 \in TaskIds :
        /\ t1 # t2
        /\ tasks[t1].op = "join" /\ tasks[t2].op = "join"
        /\ tasks[t1].chat = tasks[t2].chat /\ tasks[t1].user = tasks[t2].user
        /\ tasks[t1].result = "Joined" /\ tasks[t1].pc = "notify"
        /\ tasks[t2].result = "AlreadyJoined"
        /\ now > GAMES[tasks[t1].chat].last_activity

(* C7: stop_join on a session with fewer than MIN_PLAYERS players is
   answered TooFewPlayers and changes nothing in the registry. *)
C7_MinimumEnforced ==
    [][\A t \in TaskIds :
          ( /\ RanOp(t, "stop_join")
            /\ tasks'[t].chat \in DOMAIN GAMES
            /\ Roster(GAMES[tasks'[t].chat]) < MIN_PLAYERS )
          => /\ tasks'[t].result = "TooFewPlayers"
             /\ tasks'[t].pc = "answer_locked"
             /\ GAMES' = GAMES
    ]_vars

C7_Witness ==
    \E t \in TaskIds :
        /\ tasks[t].op = "stop_join"
        /\ tasks[t].result = "TooFewPlayers"
        /\ tasks[t].chat \in DOMAIN GAMES
        /\ Roster(GAMES[tasks[t].chat]) = MIN_PLAYERS - 1
        /\ now > GAMES[tasks[t].chat].last_activity

(* C8: judge_verdict and a verdict confirmation by a caller whose id
   differs from judge_id, every caller when judge_id is unset included, are
   rejected and leave the session, its stage included, unchanged. *)
C8_JudgeOnly ==
    [][\A t \in TaskIds :
          ( /\ Ran(t)
            /\ tasks'[t].op \in {"judge_verdict", "verdict_acquit", "verdict_convict"}
            /\ tasks'[t].chat \in DOMAIN GAMES
            /\ tasks'[t].user # GAMES[tasks'[t].chat].judge_id )
          => /\ tasks'[t].pc = "answer_locked"
             /\ tasks'[t].result \in {"PermissionDenied", "NoJudge"}
             /\ GAMES'[tasks'[t].chat].stage = GAMES[tasks'[t].chat].stage
             /\ GAMES' = GAMES
    ]_vars

C8_Witness ==
    \E t \in TaskIds :
        /\ tasks[t].op = "judge_verdict"
        /\ tasks[t].result = "PermissionDenied"
        /\ tasks[t].chat \in DOMAIN GAMES
        /\ GAMES[tasks[t].chat].judge_id \notin {NoneId, tasks[t].user}
        /\ GAMES[tasks[t].chat].stage = "debate"

(* C9: a handler invoked for one chat leaves every other chat as it was:
   whether it has a session, and that session's every field. *)
C9_ChatIsolation ==
    [][\A t \in TaskIds :
          Ran(t) =>
            \A y \in Chats \ {tasks'[t].chat} :
                /\ y \in DOMAIN GAMES <=> y \in DOMAIN GAMES'
                /\ y \in DOMAIN GAMES => GAMES'[y] = GAMES[y]
    ]_vars

C9_Witness ==
    \E t \in TaskIds :
        /\ tasks[t].op = "end_game"
        /\ tasks[t].result = "Ended"
        /\ tasks[t].chat \notin DOMAIN GAMES
        /\ \E y \in DOMAIN GAMES : y # tasks[t].chat /\ GAMES[y].order # <<>>

(* C10: a sweep of the reaper removes only sessions whose last_activity is
   more than GAME_TIMEOUT seconds before the time of the sweep, and leaves
   the sessions it keeps unchanged. *)
C10_ReaperSparesYoung ==
    [][tasks' = tasks =>
          /\ DOMAIN GAMES' \subseteq DOMAIN GAMES
          /\ \A c \in DOMAIN GAMES :
                IF c \in DOMAIN GAMES'
                THEN GAMES'[c] = GAMES[c]
                ELSE now - GAMES[c].last_activity > GAME_TIMEOUT
    ]_vars

C10_Witness ==
    /\ reaper.removed # {}
    /\ reaper.pc = "sleep"
    /\ \E c \in DOMAIN GAMES :
          /\ GAMES[c].last_activity > 0
          /\ now - GAMES[c].last_activity = GAME_TIMEOUT

(* C11: a sweep removes every session whose last_activity is more than
   GAME_TIMEOUT seconds before the time the sweep read when it started; and
   with cleanup_task running, a session that is older than the timeout is
   eventually removed unless activity replaces or refreshes it first. *)
C11_ReaperRemovesOld ==
    /\ [][/\ reaper.pc = "waiting" /\ reaper'.pc = "sleep" =>
               \A c \in DOMAIN GAMES :
                   reaper.current_time - GAMES[c].last_activity > GAME_TIMEOUT
                       => c \notin DOMAIN GAMES'
          /\ reaper.pc = "sleep" /\ tasks' = tasks /\ GAMES' # GAMES =>
               \A c \in DOMAIN GAMES :
                   now - GAMES[c].last_activity > GAME_TIMEOUT => c \notin DOMAIN GAMES'
         ]_vars
    /\ \A c \in GroupChats : \A la \in {k * TickSeconds : k \in 0..ReaperTicks} :
          ( /\ c \in DOMAIN GAMES
            /\ GAMES[c].last_activity = la
            /\ now - la > GAME_TIMEOUT )
          ~> (c \notin DOMAIN GAMES \/ GAMES[c].last_activity # la)

C11_Witness ==
    /\ reaper.pc = "sleep"
    /\ reaper.removed # {}
    /\ GAMES = EmptyMap
    /\ \E t \in TaskIds : tasks[t].pc = "waiting"

(* C12: a draw_witness by a user who already holds a card of the current
   round is answered AlreadyDrawn and changes nothing in the registry, the
   witness used-set included; a draw that is accepted adds exactly the
   caller to witness_map.  So two draws by one user in a round add one
   entry. *)
C12_SecondDrawRejected ==
    [][\A t \in TaskIds :
          ( /\ RanOp(t, "draw_witness")
            /\ tasks'[t].chat \in DOMAIN GAMES
            /\ GAMES[tasks'[t].chat].current_situation # NoneItem )
          => LET c == tasks'[t].chat
                 u == tasks'[t].user
             IN  IF u \in DOMAIN GAMES[c].witness_map
                 THEN /\ tasks'[t].result = "AlreadyDrawn"
                      /\ tasks'[t].pc = "answer_locked"
                      /\ GAMES' = GAMES
                 ELSE tasks'[t].result = "WitnessDrawn" =>
                        /\ DOMAIN GAMES'[c].witness_map = DOMAIN GAMES[c].witness_map \cup {u}
                        /\ \A v \in DOMAIN GAMES[c].witness_map :
                              GAMES'[c].witness_map[v] = GAMES[c].witness_map[v]
    ]_vars

C12_Witness ==
    \E t \in TaskIds :
        /\ tasks[t].op = "draw_witness"
        /\ tasks[t].result = "AlreadyDrawn"
        /\ tasks[t].chat \in DOMAIN GAMES
        /\ DOMAIN GAMES[tasks[t].chat].witness_map = {tasks[t].user}
        /\ Cardinality(GAMES[tasks[t].chat].used_witnesses) = 1
        /\ Len(WITNESSES) > 1

(* C13: judge_verdict and start_debate on a session whose
   current_situation is not set are rejected and leave the stage
   unchanged, whoever the caller is. *)
C13_NoScenarioRejected ==
    [][\A t \in TaskIds :
          ( /\ Ran(t)
            /\ tasks'[t].op \in {"judge_verdict", "start_debate"}
            /\ tasks'[t].chat \in DOMAIN GAMES
            /\ GAMES[tasks'[t].chat].current_situation = NoneItem )
          => /\ tasks'[t].pc = "answer_locked"
             /\ tasks'[t].chat \in DOMAIN GAMES'
             /\ GAMES'[tasks'[t].chat].stage = GAMES[tasks'[t].chat].stage
    ]_vars

(* C14: a handler step that changes any field of a session that stays in
   the registry also sets that session's last_activity to the current
   time. *)
C14_MutationsRefreshActivity ==
    [][\A t \in TaskIds :
          ( /\ Ran(t)
            /\ tasks'[t].op \in {"join", "assign_roles", "start_round", "draw_witness",
                                 "start_debate", "judge_verdict",
                                 "verdict_acquit", "verdict_convict"}
            /\ tasks'[t].chat \in DOMAIN GAMES
            /\ GAMES'[tasks'[t].chat] # GAMES[tasks'[t].chat] )
          => GAMES'[tasks'[t].chat].last_activity = now
    ]_vars

(* C15: start_round on a session with roles_assigned and a non-empty
   SITUATIONS succeeds whatever the stage: the stage becomes "situation",
   current_situation is an item of SITUATIONS whose index is marked used
   and witness_map is empty; on a session without roles_assigned it is
   rejected and changes nothing in the registry. *)
C15_StartRoundFromAnyStage ==
    [][\A t \in TaskIds :
          RanOp(t, "start_round") /\ tasks'[t].chat \in DOMAIN GAMES =>
            LET c == tasks'[t].chat
            IN  IF ~GAMES[c].roles_assigned
                THEN /\ tasks'[t].result = "NoRoles"
                     /\ tasks'[t].pc = "answer_locked"
                     /\ GAMES' = GAMES
                ELSE SITUATIONS # <<>> =>
                     /\ tasks'[t].result = "RoundStarted"
                     /\ GAMES'[c].stage = "situation"
                     /\ \E i \in GAMES'[c].used_situations :
                           GAMES'[c].current_situation = SITUATIONS[i + 1]
                     /\ GAMES'[c].witness_map = EmptyMap
                     /\ GAMES'[c].roles_assigned
    ]_vars

C15_Witness ==
    \E t \in TaskIds :
        /\ tasks[t].op = "start_round"
        /\ tasks[t].result = "RoundStarted"
        /\ tasks[t].reset
        /\ tasks[t].chat \in DOMAIN GAMES
        /\ GAMES[tasks[t].chat].stage = "situation"
        /\ GAMES[tasks[t].chat].judge_id # NoneId

(* C16: end_game removes the session of its chat whatever the session's
   stage and leaves the other chats alone; on a chat without a session it
   changes nothing, so a second end_game leaves the registry the first one
   left. *)
C16_EndGameIdempotent ==
    [][\A t \in TaskIds :
          RanOp(t, "end_game") =>
            LET c == tasks'[t].chat
            IN  /\ tasks'[t].result = "Ended"
                /\ c \notin DOMAIN GAMES'
                /\ GAMES' = [y \in DOMAIN GAMES \ {c} |-> GAMES[y]]
                /\ c \notin DOMAIN GAMES => GAMES' = GAMES
    ]_vars

C16_Witness ==
    \E t \in TaskIds :
        /\ tasks[t].op = "end_game"
        /\ tasks[t].result = "Ended"
        /\ tasks[t].pc = "notify"
        /\ GAMES = EmptyMap
        /\ lock = 0
        /\ now > 0

(* C17: in every session, stage "verdict" or "finished" implies that
   roles_assigned is true and current_situation is set. *)
C17_VerdictImpliesRound ==
    \A c \in DOMAIN GAMES :
        GAMES[c].stage \in {"verdict", "finished"} =>
            GAMES[c].roles_assigned /\ GAMES[c].current_situation # NoneItem

(* C18: in every session, roles_assigned implies that every entry of
   players has a role, distinguished or fallback. *)
C18_EveryPlayerHasRole ==
    \A c \in DOMAIN GAMES :
        GAMES[c].roles_assigned =>
            \A u \in DOMAIN GAMES[c].players :
                GAMES[c].players[u].role \in Range(ROLES) \cup {FallbackRole}

(* C19: in every session, the keys of witness_map are keys of players. *)
C19_DrawsByPlayersOnly ==
    \A c \in DOMAIN GAMES :
        DOMAIN GAMES[c].witness_map \subseteq DOMAIN GAMES[c].players

(* C20: in every session order lists exactly the ids of players, each
   once, and it changes only by an accepted join appending its caller: the
   ids stand in the order their joins were accepted. *)
C20_OrderMatchesPlayers ==
    [][/\ \A c \in DOMAIN GAMES' :
             /\ Range(GAMES'[c].order) = DOMAIN GAMES'[c].players
             /\ Len(GAMES'[c].order) = Cardinality(DOMAIN GAMES'[c].players)
             /\ Distinct(GAMES'[c].order)
       /\ \A c \in DOMAIN GAMES \cap DOMAIN GAMES' :
             \/ GAMES'[c].order = GAMES[c].order
             \/ GAMES'[c].order = <<>>
             \/ \E t \in TaskIds :
                   /\ RanOp(t, "join")
                   /\ tasks'[t].chat = c
                   /\ tasks'[t].result = "Joined"
                   /\ GAMES'[c].order = Append(GAMES[c].order, tasks'[t].user)
      ]_vars

C20_Witness ==
    /\ \E c \in DOMAIN GAMES : GAMES[c].order = <<2, 3, 1>>
    /\ \E t \in TaskIds : tasks[t].pc = "waiting" /\ tasks[t].op = "join"

(* C21: in every session judge_id and defendant_id are each unset or a
   key of players. *)
C21_IdsReferencePlayers ==
    \A c \in DOMAIN GAMES :
        /\ GAMES[c].judge_id \in {NoneId} \cup DOMAIN GAMES[c].players
        /\ GAMES[c].defendant_id \in {NoneId} \cup DOMAIN GAMES[c].players

C21_Witness ==
    \E c \in DOMAIN GAMES :
        /\ GAMES[c].judge_id # NoneId
        /\ GAMES[c].defendant_id # NoneId
        /\ Holders(GAMES[c], NoneRole) # {}

(* C26: in every session each of Judge, Prosecutor, Defense, Defendant has
   at most one holder, judge_id is set exactly when some player holds
   Judge and is then that player, and defendant_id is set exactly when
   some player holds Defendant and is then that player. *)
C26_RolesUnique ==
    \A c \in DOMAIN GAMES :
        /\ \A k \in DOMAIN ROLES : Cardinality(Holders(GAMES[c], ROLES[k])) <= 1
        /\ Holders(GAMES[c], "Judge") =
              IF GAMES[c].judge_id = NoneId THEN {} ELSE {GAMES[c].judge_id}
        /\ Holders(GAMES[c], "Defendant") =
              IF GAMES[c].defendant_id = NoneId THEN {} ELSE {GAMES[c].defendant_id}

C26_Witness ==
    \E c \in DOMAIN GAMES :
        /\ GAMES[c].roles_assigned
        /\ Roster(GAMES[c]) = NumRoleUsers
        /\ Cardinality(Holders(GAMES[c], NoneRole)) = 2
        /\ GAMES[c].judge_id # NoneId
        /\ GAMES[c].defendant_id = NoneId

(* C27: a new-game command in a group chat is accepted whether or not the
   chat has a session and whatever that session's stage: afterwards the
   chat's session has no players, an empty order, stage "joining",
   roles_assigned false, no situation, no judge, no defendant, no witness
   draws and empty used-sets; in a private chat it changes nothing in the
   registry. *)
C27_NewGameReplaces ==
    [][\A t \in TaskIds :
          RanOp(t, "newgame") =>
            LET c == tasks'[t].chat
            IN  IF c \in PrivateChats
                THEN tasks'[t].result = "PrivateChat" /\ GAMES' = GAMES
                ELSE /\ tasks'[t].result = "Created"
                     /\ DOMAIN GAMES' = DOMAIN GAMES \cup {c}
                     /\ \A y \in DOMAIN GAMES \ {c} : GAMES'[y] = GAMES[y]
                     /\ DOMAIN GAMES'[c].players = {}
                     /\ GAMES'[c].order = <<>>
                     /\ GAMES'[c].stage = "joining"
                     /\ ~GAMES'[c].roles_assigned
                     /\ GAMES'[c].current_situation = NoneItem
                     /\ GAMES'[c].judge_id = NoneId
                     /\ GAMES'[c].defendant_id = NoneId
                     /\ DOMAIN GAMES'[c].witness_map = {}
                     /\ GAMES'[c].used_situations = {}
                     /\ GAMES'[c].used_witnesses = {}
                     /\ GAMES'[c].last_activity = now
    ]_vars

C27_Witness ==
    \E t \in TaskIds :
        /\ tasks[t].op = "newgame"
        /\ tasks[t].result = "Created"
        /\ tasks[t].chat \in DOMAIN GAMES
        /\ GAMES[tasks[t].chat].stage = "joining"
        /\ GAMES[tasks[t].chat].last_activity = now
        /\ now > 0
        /\ \E y \in DOMAIN GAMES : y # tasks[t].chat

(* C28: an accepted start_round empties witness_map and leaves
   used_witnesses as it was; the situation it hands out, and the card an
   accepted draw_witness hands out, is one whose index was not marked used,
   unless every index of the list was marked, and then the used-set
   restarts from that one index. *)
C28_PoolsSurviveRounds ==
    [][\A t \in TaskIds :
          Ran(t) /\ tasks'[t].chat \in DOMAIN GAMES =>
            LET c == tasks'[t].chat
                g == GAMES[c]
                h == GAMES'[c]
            IN  /\ tasks'[t].result = "RoundStarted" =>
                     /\ h.witness_map = EmptyMap
                     /\ h.used_witnesses = g.used_witnesses
                     /\ \E i \in 0..(Len(SITUATIONS) - 1) :
                           /\ h.current_situation = SITUATIONS[i + 1]
                           /\ IF g.used_situations = 0..(Len(SITUATIONS) - 1)
                              THEN h.used_situations = {i}
                              ELSE i \notin g.used_situations
                                   /\ h.used_situations = g.used_situations \cup {i}
                /\ tasks'[t].result = "WitnessDrawn" =>
                     /\ h.used_situations = g.used_situations
                     /\ \E i \in 0..(Len(WITNESSES) - 1) :
                           /\ h.witness_map[tasks'[t].user] = WITNESSES[i + 1]
                           /\ IF g.used_witnesses = 0..(Len(WITNESSES) - 1)
                              THEN h.used_witnesses = {i}
                              ELSE i \notin g.used_witnesses
                                   /\ h.used_witnesses = g.used_witnesses \cup {i}
    ]_vars

C28_Witness ==
    \E c \in DOMAIN GAMES :
        /\ Cardinality(DOMAIN GAMES[c].witness_map) = 1
        /\ Cardinality(GAMES[c].used_witnesses) = 3
        /\ Cardinality(GAMES[c].used_situations) = 2
        /\ \E t \in TaskIds : tasks[t].result = "WitnessDrawn" /\ ~tasks[t].reset

(* C29, as stated: on a chat that has no session every action but the
   new-game command is rejected and leaves the registry as it was. *)
C29_AbsentChatRejectsAll ==
    [][\A t \in TaskIds :
          ( /\ Ran(t)
            /\ tasks'[t].op # "newgame"
            /\ tasks'[t].chat \notin DOMAIN GAMES )
          => /\ tasks'[t].pc = "answer_locked"
             /\ GAMES' = GAMES
    ]_vars

(* C29, amended: a chat enters the registry only by a new-game command for
   it; on a chat that has no session end_game is answered as done and
   changes nothing, and every other action, one that waited for the lock
   while the session was removed included, is rejected (join, stop_join,
   assign_roles, judge_verdict and the verdict confirmations as not found,
   start_round, draw_witness and start_debate with the answer of their
   precondition) and changes nothing. *)
C29_OnlyNewGameAdds ==
    [][/\ \A c \in DOMAIN GAMES' \ DOMAIN GAMES :
             \E t \in TaskIds : RanOp(t, "newgame") /\ tasks'[t].chat = c
       /\ \A t \in TaskIds :
             ( /\ Ran(t)
               /\ tasks'[t].op # "newgame"
               /\ tasks'[t].chat \notin DOMAIN GAMES )
             => /\ GAMES' = GAMES
                /\ IF tasks'[t].op = "end_game"
                   THEN tasks'[t].result = "Ended"
                   ELSE /\ tasks'[t].pc = "answer_locked"
                        /\ tasks'[t].result =
                              IF tasks'[t].op = "start_round" THEN "NoRoles"
                              ELSE IF tasks'[t].op \in {"draw_witness", "start_debate"}
                                   THEN "NoSituation"
                                   ELSE "NotFound"
      ]_vars

C29_Witness ==
    \E t \in TaskIds :
        /\ tasks[t].op = "join"
        /\ tasks[t].result = "NotFound"
        /\ tasks[t].chat \in reaper.removed
        /\ tasks[t].chat \notin DOMAIN GAMES
        /\ \E s \in TaskIds : tasks[s].pc = "waiting" /\ tasks[s].chat = tasks[t].chat

(* C22: no handler awaits an outbound message while it holds GAMES_LOCK. *)
C22_NoIOUnderLock ==
    \A t \in TaskIds : tasks[t].pc \in {"answer_locked", "notify"} => lock # t

(* C23: the deliveries and the announcement of assign_roles use only what
   was copied while the lock was held: when the handler ends, the loop over
   the roster has not failed and the roles announced are the roles its own
   locked section assigned, whatever ran in the chat in between. *)
C23_AnnouncesOwnAssignment ==
    [][\A t \in TaskIds :
        (tasks[t].pc = "notify" /\ tasks[t].op = "assign_roles" /\ tasks'[t].pc = "idle")
            => /\ ~IterationFails(t)
               /\ Announced(t) = game_ref[t].assigned]_vars

(* C24: a handler that finishes, its last await having returned or raised,
   does not hold GAMES_LOCK and changes no session in finishing; a locked
   section that rejected changed nothing; sessions change only in the one
   step of a locked section that ran alone and released the lock with its
   update complete, or in a sweep; and whoever holds the lock between steps
   is a rejected handler awaiting its answer, with nothing half-written. *)
C24_FinishedHandlerLeavesNoTrace ==
    [][/\ \A t \in TaskIds :
            /\ (tasks[t].pc \in {"answer_locked", "notify"} /\ tasks'[t].pc = "idle")
                    => lock' # t /\ GAMES' = GAMES
            /\ (Ran(t) /\ tasks'[t].pc = "answer_locked") => GAMES' = GAMES
            /\ (Ran(t) /\ GAMES' # GAMES) => lock = 0 /\ lock' = 0
            /\ lock = t => tasks[t].pc = "answer_locked"
       /\ GAMES' # GAMES =>
            \/ \E t \in TaskIds : Ran(t) /\ tasks'[t].pc = "notify"
            \/ reaper'.removed # {} /\ lock = 0]_vars

C24_Witness ==
    \E t, s \in TaskIds :
        /\ tasks[t].pc = "notify"
        /\ tasks[t].result = "Joined"
        /\ tasks[t].chat \in DOMAIN GAMES
        /\ tasks[t].user \in DOMAIN GAMES[tasks[t].chat].players
        /\ lock = s
        /\ tasks[s].pc = "answer_locked"
        /\ reaper.pc = "waiting"

Scheduled(who) == \E i \in DOMAIN sched.ready : sched.ready[i] = who

(* C25: once main has stopped the tasks every one of the three has been
   cancelled (it has ended or its step is scheduled), and by the time main
   closes the session and returns every one has ended, from whichever await
   it was cancelled at, with the sweep neither holding GAMES_LOCK nor queued
   for it. *)
C25_TasksEndBeforeExit ==
    /\ sched.main # "polling" =>
            /\ reaper.pc \in Terminated \/ Scheduled("cleanup_task")
            /\ sched.heartbeat_task \in Terminated \/ Scheduled("heartbeat_task")
            /\ sched.connection_check_task \in Terminated \/ Scheduled("connection_check_task")
    /\ sched.main \in {"closing", "exited"} =>
            /\ reaper.pc \in Terminated
            /\ sched.heartbeat_task \in Terminated
            /\ sched.connection_check_task \in Terminated
    /\ reaper.pc \in Terminated =>
            /\ \A i \in DOMAIN waiters : waiters[i] # 0
            /\ lock \in TaskIds => tasks[lock].pc = "answer_locked"

C25_Witness ==
    /\ sched.main = "exited"
    /\ sched.heartbeat_task = "cancelled"
    /\ reaper.pc = "done"
    /\ \E t \in TaskIds : tasks[t].pc = "notify" /\ tasks[t].result = "Created"

====
